---- MODULE Spec2Model ----
(***************************************************************************)
(* Model of the hermes data layer (src/src/datatypes/datatypes.py) and of  *)
(* the mode selection widget (src/src/widgets/mode.py).                    *)
(*                                                                         *)
(* One Transcription instance (with the Sample it owns), the mode field of *)
(* one ConverterData and the construction of AppSettings are modelled.     *)
(* Python values are records tagged with their type, so that truthiness,   *)
(* `+`, `-` and dictionary lookups behave (and fail) as they do in Python. *)
(***************************************************************************)
EXTENDS Integers, Sequences, FiniteSets

VARIABLES
    index,          \* Transcription.index
    image,          \* Transcription.image
    preview_image,  \* Transcription.preview_image
    id,             \* Transcription.id
    temp_file,      \* Transcription.temp_file
    sample,         \* Transcription.sample (None or a Sample object)
    mode,           \* ConverterData.mode
    tmpCount,       \* number of directories mkdtemp() has handed out
    fs,             \* files written by export()/save()
    ret,            \* the last call: operation, arguments, outcome
    prev            \* the call before it, when it was an accessor that returned

vars == <<index, image, preview_image, id, temp_file, sample, mode,
          tmpCount, fs, ret, prev>>

----------------------------------------------------------------------------
(* Bounds *)

\* mkdtemp() is called at most MaxTmp times in a behaviour.
MaxTmp == 3

----------------------------------------------------------------------------
(* Python values *)

None == [t |-> "None", v |-> <<>>, n |-> 0]
Str(s) == [t |-> "str", v |-> s, n |-> 0]
Num(k) == [t |-> "num", v |-> <<>>, n |-> k]
PyTrue == [t |-> "bool", v |-> <<>>, n |-> 1]
PyFalse == [t |-> "bool", v |-> <<>>, n |-> 0]
UUID(u) == [t |-> "UUID", v |-> <<u>>, n |-> 0]
\* a pydub AudioSegment of n milliseconds
Audio(name, len) == [t |-> "AudioSegment", v |-> <<name>>, n |-> len]
\* the value "raised" by an operator that fails
Raise(e) == [t |-> "raise", v |-> <<e>>, n |-> 0]

IsRaise(x) == x.t = "raise"

\* bool(x): None, 0, "" and an empty AudioSegment (len() == 0) are falsy
Truthy(x) ==
    CASE x.t = "None" -> FALSE
      [] x.t = "num" -> x.n # 0
      [] x.t = "bool" -> x.n # 0
      [] x.t = "str" -> x.v # <<>>
      [] x.t = "AudioSegment" -> x.n # 0
      [] OTHER -> TRUE

\* a + b
PyAdd(a, b) ==
    CASE a.t = "str" /\ b.t = "str" -> Str(a.v \o b.v)
      [] a.t \in {"num", "bool"} /\ b.t \in {"num", "bool"} -> Num(a.n + b.n)
      [] OTHER -> Raise("TypeError")

\* a - b
PySub(a, b) ==
    IF a.t \in {"num", "bool"} /\ b.t \in {"num", "bool"}
    THEN Num(a.n - b.n)
    ELSE Raise("TypeError")

\* abs(a)
PyAbs(a) ==
    IF a.t \in {"num", "bool"}
    THEN Num(IF a.n < 0 THEN -a.n ELSE a.n)
    ELSE Raise("TypeError")

Digits == <<"0", "1", "2", "3", "4", "5", "6", "7", "8", "9">>

\* str(x) of a small integer or of a UUID
PyStr(x) ==
    CASE x.t = "num" -> Str(<<Digits[x.n + 1]>>)
      [] x.t = "UUID" -> Str(x.v)
      [] x.t = "str" -> x
      [] OTHER -> Str(<<x.t>>)

\* os.path.join(a, b) for a relative b
PathJoin(a, b) == Str(a.v \o <<"/">> \o b.v)

\* tempfile.mkdtemp(): the k-th call returns a fresh directory
mkdtemp(k) == Str(<<"/tmp/tmp", Digits[k + 1]>>)

----------------------------------------------------------------------------
(* Constants of datatypes.py *)

MATCH_ERROR_MARGIN == 1


\* dictionaries are sequences of <<key, value>> pairs in insertion order

\* d[k] = v
DictSet(d, k, v) ==
    IF \E i \in 1..Len(d) : d[i][1] = k
    THEN [i \in 1..Len(d) |-> IF d[i][1] = k THEN <<k, v>> ELSE d[i]]
    ELSE Append(d, <<k, v>>)

\* d[k]
DictGet(d, k) ==
    IF \E i \in 1..Len(d) : d[i][1] = k
    THEN d[CHOOSE i \in 1..Len(d) : d[i][1] = k][2]
    ELSE Raise("KeyError")

RECURSIVE DictInvertFrom(_, _, _)
DictInvertFrom(d, i, acc) ==
    IF i > Len(d) THEN acc
    ELSE DictInvertFrom(d, i + 1, DictSet(acc, d[i][2], d[i][1]))

\* {v: k for k, v in d.items()}
DictInvert(d) == DictInvertFrom(d, 1, <<>>)

\* l[i] for a list l and an integer i
ListGet(l, i) ==
    IF i.t \notin {"num", "bool"} THEN Raise("TypeError")
    ELSE IF i.n >= 0 /\ i.n < Len(l) THEN l[i.n + 1]
    ELSE IF i.n < 0 /\ -i.n <= Len(l) THEN l[Len(l) + i.n + 1]
    ELSE Raise("IndexError")

\* PyQt5 QMultimedia.EncodingQuality members
QMultimedia(name, k) == [t |-> "EncodingQuality", v |-> <<name>>, n |-> k]

\* "Very High" given the value of "High"
AUDIO_QUALITY_shared_value ==
    << <<Str(<<"Very Low">>), QMultimedia("VeryLowQuality", 0)>>,
       <<Str(<<"Low">>), QMultimedia("LowQuality", 1)>>,
       <<Str(<<"Normal">>), QMultimedia("NormalQuality", 2)>>,
       <<Str(<<"High">>), QMultimedia("HighQuality", 3)>>,
       <<Str(<<"Very High">>), QMultimedia("HighQuality", 3)>> >>

AUDIO_QUALITY ==
    << <<Str(<<"Very Low">>), QMultimedia("VeryLowQuality", 0)>>,
       <<Str(<<"Low">>), QMultimedia("LowQuality", 1)>>,
       <<Str(<<"Normal">>), QMultimedia("NormalQuality", 2)>>,
       <<Str(<<"High">>), QMultimedia("HighQuality", 3)>>,
       <<Str(<<"Very High">>), QMultimedia("VeryHighQuality", 4)>> >>

AUDIO_QUALITY_REV == DictInvert(AUDIO_QUALITY)

EnumMember(cls, name, k) == [t |-> cls, v |-> <<name>>, n |-> k]

\* list(OperationMode)
OperationMode ==
    << EnumMember("OperationMode", "ELAN", 0),
       EnumMember("OperationMode", "SCRATCH", 1) >>

\* list(OutputMode)
OutputMode ==
    << EnumMember("OutputMode", "OPIE", 0),
       EnumMember("OutputMode", "LMF", 1),
       EnumMember("OutputMode", "DICT", 2) >>

OUTPUT_MODE_NAMES ==
    << <<Num(0), Str(<<"OPIE File Structure">>)>>,
       <<Num(1), Str(<<"Language Manifest File (JSON)">>)>>,
       <<Num(2), Str(<<"Generic Dictionary (CSV)">>)>> >>

OUTPUT_MODES_REV == DictInvert(OUTPUT_MODE_NAMES)

----------------------------------------------------------------------------
(* The environment: which files the media libraries can read *)

\* files AudioSegment.from_wav can decode
WavFiles == {Str(<<"rec1.wav">>)}

\* files PIL.Image.open can open
ImageFiles == {Str(<<"a.png">>)}

\* AudioSegment.from_wav(path)
from_wav(path) ==
    IF path \in WavFiles THEN Audio(path.v[1], 1500)
    ELSE Raise("FileNotFoundError")

\* Image.open(path)
Image_open(path) ==
    IF path \in ImageFiles THEN [t |-> "Image", v |-> path.v, n |-> 0]
    ELSE Raise("FileNotFoundError")

Min(a, b) == IF a < b THEN a ELSE b

\* audio[start:end]: pydub slices by milliseconds, clamped to the track
AudioSlice(audio, start, end) ==
    IF audio.t # "AudioSegment" THEN Raise("TypeError")
    ELSE IF start.t \notin {"None", "num"} \/ end.t \notin {"None", "num"}
    THEN Raise("TypeError")
    ELSE LET s == IF start.t = "None" THEN 0 ELSE Min(start.n, audio.n)
             e == IF end.t = "None" THEN audio.n ELSE Min(end.n, audio.n)
         IN Audio(audio.v[1], IF e > s THEN e - s ELSE 0)

----------------------------------------------------------------------------
(* class Sample *)

NoSample == [t |-> "None"]

\* Sample.__init__
Sample(idx, start, end, audio_file, sample_path, sample_object) ==
    [t |-> "Sample", index |-> idx, start |-> start, end |-> end,
     recorded |-> PyFalse, audio_file |-> audio_file,
     sample_path |-> sample_path, sample_object |-> sample_object]

\* the outcome of a method of Sample: the object after the call, the
\* directories and files created, the exception raised ("" for none), the
\* value returned and the media operations performed
Outcome(S, k, files, exc, val, did) ==
    [sample |-> S, tmpCount |-> k, fs |-> files, exc |-> exc, val |-> val,
     did |-> did]

\* get_sample_file_path without the test of sample_path: every call slices
\* and exports into a fresh directory
get_sample_file_path_uncached(S, k, files, exportOk) ==
    LET sample_file == AudioSlice(S.audio_file, S.start, S.end)
    IN IF IsRaise(sample_file)
       THEN Outcome(S, k, files, sample_file.v[1], None, {})
       ELSE LET path == PathJoin(mkdtemp(k),
                                 PyAdd(PyStr(S.index), Str(<<".wav">>)))
                S2 == [S EXCEPT !.sample_object = sample_file,
                                !.sample_path = path]
            IN IF exportOk
               THEN Outcome(S2, k + 1, files \cup {path}, "", path,
                            {"slice", "export"})
               ELSE Outcome(S2, k + 1, files, "CouldntEncodeError", None,
                            {"slice", "export"})

\* get_sample_file_path testing sample_object where the code tests
\* sample_path
get_sample_file_path_tests_object(S, k, files, exportOk) ==
    IF Truthy(S.sample_object)
    THEN Outcome(S, k, files, "", S.sample_path, {})
    ELSE get_sample_file_path_uncached(S, k, files, exportOk)

\* Sample.get_sample_file_path; exportOk: whether export() writes the file
get_sample_file_path(S, k, files, exportOk) ==
    IF ~Truthy(S.sample_path)
    THEN LET sample_file == AudioSlice(S.audio_file, S.start, S.end)
         IN IF IsRaise(sample_file)
            THEN Outcome(S, k, files, sample_file.v[1], None, {})
            ELSE LET temporary_folder == mkdtemp(k)
                     path == PathJoin(temporary_folder,
                                      PyAdd(PyStr(S.index), Str(<<".wav">>)))
                     S2 == [S EXCEPT !.sample_object = sample_file,
                                     !.sample_path = path]
                 IN IF exportOk
                    THEN Outcome(S2, k + 1, files \cup {path}, "", path,
                                 {"slice", "export"})
                    ELSE Outcome(S2, k + 1, files, "CouldntEncodeError", None,
                                 {"slice", "export"})
    ELSE Outcome(S, k, files, "", S.sample_path, {})

\* Sample.get_sample_file_object
get_sample_file_object(S, k, files, exportOk) ==
    LET r == get_sample_file_path(S, k, files, exportOk)
    IN IF r.exc # "" THEN r ELSE [r EXCEPT !.val = r.sample.sample_object]

\* Sample.set_sample
set_sample(S, k, files, path) ==
    LET S1 == [S EXCEPT !.sample_path = path]
        obj == from_wav(path)
    IN IF IsRaise(obj)
       THEN Outcome(S1, k, files, obj.v[1], None, {})
       ELSE Outcome([S1 EXCEPT !.sample_object = obj], k, files, "", None,
                    {"from_wav"})

----------------------------------------------------------------------------
(* class Translation *)

\* Translation.__init__
Translation(idx, text, start, end) ==
    [t |-> "Translation", index |-> idx, translation |-> text,
     start |-> start, end |-> end]


----------------------------------------------------------------------------
(* class Transcription *)

\* a < b
PyLt(a, b) ==
    IF IsRaise(a) THEN a
    ELSE IF IsRaise(b) THEN b
    ELSE IF a.t \in {"num", "bool"} /\ b.t \in {"num", "bool"}
    THEN (IF a.n < b.n THEN PyTrue ELSE PyFalse)
    ELSE Raise("TypeError")

\* abs(a - b)
AbsDiff(a, b) ==
    LET d == PySub(a, b) IN IF IsRaise(d) THEN d ELSE PyAbs(d)

\* the Sample that Transcription.__init__ creates, or None
Transcription_init(idx, start, end, media) ==
    IF ~(Truthy(media) /\ Truthy(start) /\ Truthy(end))
    THEN NoSample
    ELSE Sample(idx, start, end, media, None, None)

\* Transcription.time_matches_translation: the value returned, or the
\* exception raised.  `and` evaluates its right operand only when the left
\* one is true.
time_matches_translation(S, translation) ==
    IF ~Truthy(S) THEN PyFalse
    ELSE LET c1 == PyLt(AbsDiff(S.start, translation.start),
                        Num(MATCH_ERROR_MARGIN))
         IN IF IsRaise(c1) THEN c1
            ELSE IF ~Truthy(c1) THEN PyFalse
            ELSE LET c2 == PyLt(AbsDiff(S.end, translation.end),
                                Num(MATCH_ERROR_MARGIN))
                 IN IF IsRaise(c2) THEN c2
                    ELSE IF Truthy(c2) THEN PyTrue ELSE PyFalse

\* Transcription.get_temp_file
get_temp_file(tf, k) ==
    IF ~Truthy(tf)
    THEN [temp_file |-> mkdtemp(k), tmpCount |-> k + 1]
    ELSE [temp_file |-> tf, tmpCount |-> k]

\* the outcome of a method of Transcription that deals with images
ImageOutcome(img, pv, tf, k, files, exc, val, did) ==
    [image |-> img, preview_image |-> pv, temp_file |-> tf, tmpCount |-> k,
     fs |-> files, exc |-> exc, val |-> val, did |-> did]

\* Transcription.set_image; saveOk: whether image.save() writes the file
set_image(uid, img, pv, tf, k, files, path_to_image, saveOk) ==
    LET opened == Image_open(path_to_image)
    IN IF IsRaise(opened)
       THEN ImageOutcome(img, pv, tf, k, files, opened.v[1], None, {})
       ELSE LET g == get_temp_file(tf, k)
                prefix == PyAdd(g.temp_file, uid)
                new_image_path ==
                    IF IsRaise(prefix) THEN prefix
                    ELSE PyAdd(prefix, Str(<<".png">>))
            IN IF IsRaise(new_image_path)
               THEN ImageOutcome(img, pv, g.temp_file, g.tmpCount, files,
                                 new_image_path.v[1], None, {})
               ELSE IF ~saveOk
               THEN ImageOutcome(img, pv, g.temp_file, g.tmpCount, files,
                                 "OSError", None, {"save"})
               ELSE ImageOutcome(path_to_image, pv, g.temp_file, g.tmpCount,
                                 files \cup {new_image_path}, "", None,
                                 {"save"})

\* Transcription.set_blank_sample
set_blank_sample(idx) == Sample(idx, None, None, None, None, None)

\* Transcription.refresh_preview_image.  The conversion at lines 195-196
\* discards its result and changes nothing.
refresh_preview_image(uid, img, pv, tf, k, files, saveOk) ==
    LET g == get_temp_file(tf, k)
        preview_path == PathJoin(g.temp_file,
                                 PyAdd(PyStr(uid), Str(<<".png">>)))
        opened == IF img.t # "str" THEN Raise("TypeError")
                  ELSE Image_open(img)
    IN IF IsRaise(opened)
       THEN ImageOutcome(img, pv, g.temp_file, g.tmpCount, files,
                         opened.v[1], None, {})
       ELSE IF ~saveOk
       THEN ImageOutcome(img, pv, g.temp_file, g.tmpCount, files,
                         "OSError", None, {"resize", "save"})
       ELSE ImageOutcome(img, preview_path, g.temp_file, g.tmpCount,
                         files \cup {preview_path}, "", preview_path,
                         {"resize", "save"})

\* Transcription.get_preview_image
get_preview_image(uid, img, pv, tf, k, files, saveOk) ==
    IF Truthy(img) /\ ~Truthy(pv)
    THEN LET r == refresh_preview_image(uid, img, pv, tf, k, files, saveOk)
         IN IF r.exc # "" THEN r ELSE [r EXCEPT !.val = r.preview_image]
    ELSE ImageOutcome(img, pv, tf, k, files, "", pv, {})

----------------------------------------------------------------------------
(* class AppSettings *)

\* AppSettings.__init__ falling back to the defaults of its signature for a
\* label it does not know
AppSettings_lenient(output_format, microphone, audio_quality, ffmpeg_location) ==
    LET number == DictGet(OUTPUT_MODES_REV, output_format)
        member == IF IsRaise(number) THEN OutputMode[1]
                  ELSE ListGet(OutputMode, number)
        quality == DictGet(AUDIO_QUALITY, audio_quality)
    IN [t |-> "AppSettings", output_format |-> member,
        microphone |-> microphone,
        audio_quality |-> IF IsRaise(quality)
                          THEN DictGet(AUDIO_QUALITY, Str(<<"Normal">>))
                          ELSE quality,
        ffmpeg_location |-> ffmpeg_location]

\* AppSettings.__init__: the instance, or the exception raised
AppSettings(output_format, microphone, audio_quality, ffmpeg_location) ==
    LET number == DictGet(OUTPUT_MODES_REV, output_format)
        member == IF IsRaise(number) THEN number
                  ELSE ListGet(OutputMode, number)
        quality == DictGet(AUDIO_QUALITY, audio_quality)
    IN IF IsRaise(member) THEN member
       ELSE IF IsRaise(quality) THEN quality
       ELSE [t |-> "AppSettings", output_format |-> member,
             microphone |-> microphone, audio_quality |-> quality,
             ffmpeg_location |-> ffmpeg_location]

----------------------------------------------------------------------------
(* Inputs *)

Indexes == {Num(0), Num(3)}
Starts == {None, Num(0), Num(2000)}
Ends == {None, Num(0), Num(5000)}
Medias == {None, Audio("media", 6000)}
ImagePaths == {Str(<<"a.png">>), Str(<<"notes.txt">>)}
UUIDs == {UUID("uuid-1")}
SamplePaths == {Str(<<>>), Str(<<"rec1.wav">>), Str(<<"missing.wav">>)}
\* [start, end] windows in milliseconds
TranslationWindows ==
    {<<2300, 4900>>, <<500, 2000>>, <<1000, 5000>>, <<2000, 4000>>,
     <<2000, 5000>>, <<2000, 5001>>}
Translations ==
    {Translation(Num(1), Str(<<"hello">>), Num(w[1]), Num(w[2])) :
        w \in TranslationWindows}
OutputFormatLabels ==
    {OUTPUT_MODE_NAMES[i][2] : i \in 1..Len(OUTPUT_MODE_NAMES)}
        \cup {Str(<<"bogus">>)}
AudioQualityLabels ==
    {AUDIO_QUALITY[i][1] : i \in 1..Len(AUDIO_QUALITY)} \cup {Str(<<"bogus">>)}

----------------------------------------------------------------------------
(* State machine *)

Call(op, args, exc, val, did) ==
    [op |-> op, args |-> args, exc |-> exc, val |-> val, did |-> did]

\* the operations that materialize an artifact on first use
Accessors == {"Sample.get_sample_file_path", "Transcription.get_preview_image"}

NoCall == [op |-> "", val |-> None, did |-> {}]

\* what the next state remembers of the last call: an accessor that returned
Last ==
    IF ret.op \in Accessors /\ ret.exc = ""
    THEN [op |-> ret.op, val |-> ret.val, did |-> ret.did]
    ELSE NoCall

\* Transcription(index, transcription, image=..., start=..., end=...,
\* media=...) and ConverterData()
Init ==
    \E idx \in Indexes, img \in ImagePaths \cup {None}, start \in Starts,
       end \in Ends, media \in Medias, uid \in UUIDs :
        /\ index = idx
        /\ image = img
        /\ preview_image = None
        /\ id = uid
        /\ temp_file = None
        /\ sample = Transcription_init(idx, start, end, media)
        /\ mode = None
        /\ tmpCount = 0
        /\ fs = {}
        /\ ret = Call("Transcription.__init__",
                      [index |-> idx, image |-> img, start |-> start,
                       end |-> end, media |-> media], "", None, {})
        /\ prev = NoCall

\* a method of the owned Sample ran with outcome r
SampleStep(op, args, r) ==
    /\ r.tmpCount <= MaxTmp
    /\ sample' = r.sample
    /\ tmpCount' = r.tmpCount
    /\ fs' = r.fs
    /\ ret' = Call(op, args, r.exc, r.val, r.did)
    /\ prev' = Last
    /\ UNCHANGED <<index, image, preview_image, id, temp_file, mode>>

Sample_get_sample_file_path ==
    /\ Truthy(sample)
    /\ \E exportOk \in BOOLEAN :
        SampleStep("Sample.get_sample_file_path", None,
                   get_sample_file_path(sample, tmpCount, fs, exportOk))

Sample_get_sample_file_object ==
    /\ Truthy(sample)
    /\ \E exportOk \in BOOLEAN :
        SampleStep("Sample.get_sample_file_object", None,
                   get_sample_file_object(sample, tmpCount, fs, exportOk))

Sample_set_sample ==
    /\ Truthy(sample)
    /\ \E path \in SamplePaths :
        SampleStep("Sample.set_sample", path,
                   set_sample(sample, tmpCount, fs, path))

Transcription_time_matches_translation ==
    \E translation \in Translations :
        LET r == time_matches_translation(sample, translation)
        IN /\ ret' = IF IsRaise(r)
                     THEN Call("Transcription.time_matches_translation",
                               translation, r.v[1], None, {})
                     ELSE Call("Transcription.time_matches_translation",
                               translation, "", r, {})
           /\ prev' = Last
           /\ UNCHANGED <<index, image, preview_image, id, temp_file, sample,
                          mode, tmpCount, fs>>

\* a method of the Transcription that deals with images ran with outcome r
ImageStep(op, args, r) ==
    /\ image' = r.image
    /\ preview_image' = r.preview_image
    /\ temp_file' = r.temp_file
    /\ tmpCount' = r.tmpCount
    /\ fs' = r.fs
    /\ ret' = Call(op, args, r.exc, r.val, r.did)
    /\ prev' = Last
    /\ UNCHANGED <<index, id, sample, mode>>

Transcription_set_image ==
    \E path_to_image \in ImagePaths, saveOk \in BOOLEAN :
        LET r == set_image(id, image, preview_image, temp_file, tmpCount,
                           fs, path_to_image, saveOk)
        IN /\ r.tmpCount <= MaxTmp
           /\ ImageStep("Transcription.set_image", path_to_image, r)

Transcription_set_blank_sample ==
    /\ sample' = set_blank_sample(index)
    /\ ret' = Call("Transcription.set_blank_sample", None, "", None, {})
    /\ prev' = Last
    /\ UNCHANGED <<index, image, preview_image, id, temp_file, mode,
                   tmpCount, fs>>

Transcription_refresh_preview_image ==
    \E saveOk \in BOOLEAN :
        LET r == refresh_preview_image(id, image, preview_image, temp_file,
                                       tmpCount, fs, saveOk)
        IN /\ r.tmpCount <= MaxTmp
           /\ ImageStep("Transcription.refresh_preview_image", None, r)

Transcription_get_preview_image ==
    \E saveOk \in BOOLEAN :
        LET r == get_preview_image(id, image, preview_image, temp_file,
                                   tmpCount, fs, saveOk)
        IN /\ r.tmpCount <= MaxTmp
           /\ ImageStep("Transcription.get_preview_image", None, r)

Transcription_get_temp_file ==
    LET g == get_temp_file(temp_file, tmpCount)
    IN /\ g.tmpCount <= MaxTmp
       /\ temp_file' = g.temp_file
       /\ tmpCount' = g.tmpCount
       /\ ret' = Call("Transcription.get_temp_file", None, "", g.temp_file, {})
       /\ prev' = Last
       /\ UNCHANGED <<index, image, preview_image, id, sample, mode, fs>>

\* ModeSelection.on_click_elan: the assignment to parent.data.mode
on_click_elan ==
    /\ mode' = OperationMode[1]
    /\ ret' = Call("ModeSelection.on_click_elan", None, "", None, {})
    /\ prev' = Last
    /\ UNCHANGED <<index, image, preview_image, id, temp_file, sample,
                   tmpCount, fs>>

\* ModeSelection.on_click_scratch: the assignment to parent.data.mode
on_click_scratch ==
    /\ mode' = OperationMode[2]
    /\ ret' = Call("ModeSelection.on_click_scratch", None, "", None, {})
    /\ prev' = Last
    /\ UNCHANGED <<index, image, preview_image, id, temp_file, sample,
                   tmpCount, fs>>

AppSettings_init ==
    \E output_format \in OutputFormatLabels,
       audio_quality \in AudioQualityLabels :
        LET r == AppSettings(output_format, Str(<<"Default">>), audio_quality,
                             None)
            args == [output_format |-> output_format,
                     audio_quality |-> audio_quality]
        IN /\ ret' = IF IsRaise(r)
                     THEN Call("AppSettings.__init__", args, r.v[1], None, {})
                     ELSE Call("AppSettings.__init__", args, "", r, {})
           /\ prev' = Last
           /\ UNCHANGED <<index, image, preview_image, id, temp_file, sample,
                          mode, tmpCount, fs>>

Next ==
    \/ Sample_get_sample_file_path
    \/ Sample_get_sample_file_object
    \/ Sample_set_sample
    \/ Transcription_time_matches_translation
    \/ Transcription_set_image
    \/ Transcription_set_blank_sample
    \/ Transcription_refresh_preview_image
    \/ Transcription_get_preview_image
    \/ Transcription_get_temp_file

\* one Transcription and the Sample it owns
Spec == Init /\ [][Next]_vars

JobNext ==
    \/ on_click_elan
    \/ on_click_scratch
    \/ AppSettings_init

\* the job's ConverterData and the application's settings
JobSpec == Init /\ [][JobNext]_vars


----------------------------------------------------------------------------
(* Properties *)

Abs(x) == IF x < 0 THEN -x ELSE x

MatchOp == "Transcription.time_matches_translation"

\* C1: for a Sample with window [start_S, end_S] and a Translation with
\* window [start_T, end_T], both in milliseconds, time_matches_translation
\* returns true iff |start_S - start_T| < 1000 and |end_S - end_T| < 1000.
C1_MatchesWithinOneSecond ==
    (/\ ret.op = MatchOp
     /\ Truthy(sample)
     /\ sample.start.t = "num"
     /\ sample.end.t = "num")
    => /\ ret.exc = ""
       /\ ret.val \in {PyTrue, PyFalse}
       /\ ret.val = PyTrue <=>
            /\ Abs(sample.start.n - ret.args.start.n) < 1000
            /\ Abs(sample.end.n - ret.args.end.n) < 1000

\* C2: two calls in a row of a materialization accessor on the same instance
\* (get_sample_file_path, get_preview_image), both returning, return the same
\* path, and the second performs no slice, export, resize or save.
C2_AccessorMemoized ==
    (/\ ret.op \in Accessors
     /\ ret.exc = ""
     /\ prev.op = ret.op)
    => /\ ret.val = prev.val
       /\ ret.did = {}

\* a second get_sample_file_path right after the one that sliced and
\* exported, on a Transcription whose preview is materialized as well
C2_SecondCallReturnsCachedPath ==
    /\ ret.op = "Sample.get_sample_file_path"
    /\ ret.exc = ""
    /\ prev.op = ret.op
    /\ prev.did = {"slice", "export"}
    /\ ret.val = sample.sample_path
    /\ ret.val \in fs
    /\ Truthy(preview_image)

SampleOps ==
    {"Sample.get_sample_file_path", "Sample.get_sample_file_object",
     "Sample.set_sample"}

\* C3 as stated: once sample_path is set, no get_sample_file_path,
\* get_sample_file_object or set_sample call changes it.  Stated for the
\* calls that return, on a Sample whose path names a clip that exists.
C3_SamplePathNeverChanges ==
    [][(/\ ret'.op \in SampleOps
        /\ ret'.exc = ""
        /\ Truthy(sample.sample_path)
        /\ sample.sample_path \in fs \cup WavFiles)
        => sample'.sample_path = sample.sample_path]_vars

\* C3 as amended: once sample_path is a non-empty path, no
\* get_sample_file_path or get_sample_file_object call changes it; a
\* set_sample(path) call makes it path.
C3_SamplePathStableUnderAccessors ==
    [][/\ (/\ ret'.op \in SampleOps \ {"Sample.set_sample"}
           /\ Truthy(sample.sample_path))
          => sample'.sample_path = sample.sample_path
       /\ ret'.op = "Sample.set_sample"
          => sample'.sample_path = ret'.args]_vars

\* a path bound with set_sample is still there after get_sample_file_object
\* returned the object decoded from it
C3_BoundPathKept ==
    /\ ret.op = "Sample.get_sample_file_object"
    /\ ret.exc = ""
    /\ ret.did = {}
    /\ sample.sample_path \in WavFiles
    /\ ret.val = from_wav(sample.sample_path)

\* C4: a get_sample_file_path call that fails leaves sample_path and
\* sample_object as they were (unset): nothing is cached unless the file was
\* written.
C4_FailedMaterializationCachesNothing ==
    [][(ret'.op = "Sample.get_sample_file_path" /\ ret'.exc # "")
        => /\ sample'.sample_path = sample.sample_path
           /\ sample'.sample_object = sample.sample_object]_vars

\* C5: Transcription.__init__ creates a Sample with window [start, end] and
\* the Transcription's index iff media, start and end are all given (a start
\* or end of 0 included); otherwise there is no Sample.
C5_SampleIffAllThreeGiven ==
    ret.op = "Transcription.__init__"
    => IF ret.args.media # None /\ ret.args.start # None
          /\ ret.args.end # None
       THEN /\ sample.t = "Sample"
            /\ sample.start = ret.args.start
            /\ sample.end = ret.args.end
            /\ sample.index = index
       ELSE sample = NoSample

\* the labels the specification recognizes, with the member each stands for
ExpectedOutputFormat ==
    {<<Str(<<"OPIE File Structure">>), "OPIE">>,
     <<Str(<<"Language Manifest File (JSON)">>), "LMF">>,
     <<Str(<<"Generic Dictionary (CSV)">>), "DICT">>}

ExpectedAudioQuality ==
    {<<Str(<<"Very Low">>), "VeryLowQuality">>,
     <<Str(<<"Low">>), "LowQuality">>,
     <<Str(<<"Normal">>), "NormalQuality">>,
     <<Str(<<"High">>), "HighQuality">>,
     <<Str(<<"Very High">>), "VeryHighQuality">>}

Recognized(expected, label) == \E e \in expected : e[1] = label

\* AppSettings(...) with an unrecognized label fails with `exception` and
\* yields no instance; with recognized labels it yields their members
SettingsContract(exception) ==
    ret.op = "AppSettings.__init__"
    => IF /\ Recognized(ExpectedOutputFormat, ret.args.output_format)
          /\ Recognized(ExpectedAudioQuality, ret.args.audio_quality)
       THEN /\ ret.exc = ""
            /\ ret.val.t = "AppSettings"
            /\ <<ret.args.output_format, ret.val.output_format.v[1]>>
                  \in ExpectedOutputFormat
            /\ ret.val.output_format.t = "OutputMode"
            /\ <<ret.args.audio_quality, ret.val.audio_quality.v[1]>>
                  \in ExpectedAudioQuality
       ELSE /\ ret.exc = exception
            /\ ret.val = None

\* C6 as stated: an unrecognized output-format or audio-quality label makes
\* AppSettings(...) fail with ConfigError and yield no instance; recognized
\* labels yield the corresponding internal values.
C6_UnrecognizedLabelIsConfigError == SettingsContract("ConfigError")

\* C6 as amended: an unrecognized output-format or audio-quality label makes
\* AppSettings(...) fail with KeyError and yield no instance; recognized
\* labels yield the corresponding internal values.
C6_UnrecognizedLabelIsKeyError == SettingsContract("KeyError")

\* AppSettings("Generic Dictionary (CSV)", audio_quality="bogus") was
\* rejected
C6_BogusLabelRejected ==
    /\ ret.op = "AppSettings.__init__"
    /\ ret.args.output_format = Str(<<"Generic Dictionary (CSV)">>)
    /\ ret.args.audio_quality = Str(<<"bogus">>)
    /\ ret.exc = "KeyError"

Keys(d) == {d[i][1] : i \in 1..Len(d)}

Values(d) == {d[i][2] : i \in 1..Len(d)}

\* C7: the label maps are total bijections: every label that AppSettings
\* maps to an internal value maps back to itself through OUTPUT_MODE_NAMES
\* (keyed by the OutputMode value) and AUDIO_QUALITY_REV, all three
\* output-format and five audio-quality labels are mapped, and each internal
\* value has exactly one label.
C7_LabelMapsRoundTrip ==
    /\ (ret.op = "AppSettings.__init__" /\ ret.exc = "")
       => /\ DictGet(OUTPUT_MODE_NAMES, Num(ret.val.output_format.n))
                = ret.args.output_format
          /\ DictGet(AUDIO_QUALITY_REV, ret.val.audio_quality)
                = ret.args.audio_quality
    /\ Cardinality(Keys(OUTPUT_MODES_REV)) = Len(OutputMode)
    /\ Values(OUTPUT_MODES_REV)
          = {Num(OutputMode[i].n) : i \in 1..Len(OutputMode)}
    /\ Cardinality(Keys(AUDIO_QUALITY)) = Cardinality(Values(AUDIO_QUALITY))
    /\ Keys(AUDIO_QUALITY_REV) = Values(AUDIO_QUALITY)
    /\ Values(AUDIO_QUALITY_REV) = Keys(AUDIO_QUALITY)

\* AppSettings("Language Manifest File (JSON)", audio_quality="High") was
\* built and both labels map back
C7_LabelsMappedBack ==
    /\ ret.op = "AppSettings.__init__"
    /\ ret.exc = ""
    /\ ret.args.output_format = Str(<<"Language Manifest File (JSON)">>)
    /\ ret.args.audio_quality = Str(<<"High">>)
    /\ DictGet(OUTPUT_MODE_NAMES, Num(ret.val.output_format.n))
          = ret.args.output_format
    /\ DictGet(AUDIO_QUALITY_REV, ret.val.audio_quality)
          = ret.args.audio_quality

\* C8: set_image(path) for an image that can be opened completes without
\* error, writes <scratch directory>/<id>.png and leaves image = path.
C8_SetImageRecordsPath ==
    (/\ ret.op = "Transcription.set_image"
     /\ ret.args \in ImageFiles
     /\ ret.exc # "OSError")
    => /\ ret.exc = ""
       /\ image = ret.args
       /\ Truthy(temp_file)
       /\ PathJoin(temp_file, PyAdd(PyStr(id), Str(<<".png">>))) \in fs

\* C9: once ConverterData.mode is ELAN or SCRATCH, no mode-selection event
\* changes it.
C9_ModeSetOnce ==
    [][mode # None => mode' = mode]_vars

\* C10: after construction and any number of set_blank_sample calls,
\* time_matches_translation returns a boolean without failing, and returns
\* false when the Sample is blank.
C10_MatchNeverFails ==
    (/\ ret.op = MatchOp
     /\ \/ sample = NoSample
        \/ (sample.sample_path = None /\ sample.sample_object = None))
    => /\ ret.exc = ""
       /\ ret.val \in {PyTrue, PyFalse}
       /\ (Truthy(sample) /\ sample.start = None /\ sample.end = None)
          => ret.val = PyFalse

====
